---------------------------- MODULE Spec2Model ----------------------------
(***************************************************************************)
(* Reservation booking and lifecycle engine of restaurant_reservation.     *)
(*                                                                         *)
(* The store is PostgreSQL under its default READ COMMITTED isolation.     *)
(* Every execute_query call (db.py:25-36) is a transaction of its own, so  *)
(* each read of a handler is a separate step other requests interleave     *)
(* with.  A write transaction (INSERT/UPDATE/DELETE ... commit) becomes    *)
(* visible as a whole when it commits; its relative UPDATEs and its        *)
(* DELETE ... RETURNING act on the rows committed at that moment (row      *)
(* locks serialise them), so it is one step placed at its commit.          *)
(*                                                                         *)
(* Money is counted in minor units (NUMERIC(15,2), 1 = 0.01).  The Decimal *)
(* final price computed by the handler has four decimal places and is      *)
(* counted in 1/100 of a minor unit.  Time is counted in minutes.          *)
(*                                                                         *)
(* create_reservation reads reservation.table_id (reservations.py:112),    *)
(* so a booking request carries user_id, table_id, start_time, end_time.   *)
(***************************************************************************)
EXTENDS Integers, FiniteSets, Sequences, TLC

VARIABLES
    now,          \* datetime.now(), in minutes
    users,        \* table users: id -> row
    tables,       \* table tables: id -> row
    promocodes,   \* table promocodes: id -> row
    reservations, \* table reservations (active): id -> row
    completed,    \* table reservations_completed (archive): id -> row
    seq,          \* the next ids of reservations and reservations_completed (SERIAL; the
                  \* ids a rolled-back INSERT skips are left out, no id is handed out twice)
    pc,           \* per request worker: position inside its handler
    local,        \* per request worker: the handler's local variables
    resp,         \* the response the last step sent, NoReply if none: the handler, the
                  \* status, the detail and the reservation id the exchange is about
    refunds       \* history: per reservation id, how many times its price was credited back

vars == <<now, users, tables, promocodes, reservations, completed, seq, pc, local, resp, refunds>>

-----------------------------------------------------------------------------
(* The bound, the program constants and the sets requests are drawn from *)

\* reservation ids the sequence may hand out before bookings stop
MaxReservations == 2

\* timedelta(hours=1), in minutes
Hour == 60

\* SQL NULL of users.promocode_id
NULL == 0

Workers == {1, 2}
UserIds == {1, 2}
TableIds == {1, 2}

\* the clock readings the model steps through
ClockTimes == {0, 200, 400}

\* the booking windows well-formed requests are drawn from: <<start_time, end_time>>
Windows == { <<120, 240>>,   \* two hours
             <<180, 300>>,   \* overlaps the first
             <<240, 360>> }  \* touches the first, overlaps the second

\* the bookings concurrent requests ask for: <<table_id, window>>
Offers == { <<1, <<120, 240>> >>, <<1, <<180, 300>> >>, <<1, <<240, 360>> >>,
            <<2, <<120, 240>> >> }

\* windows the validations of create_reservation turn down
BadWindows == { <<60, 120>>,    \* exactly one hour
                <<300, 180>> }  \* start after end

\* create_partition(2024) provisions archive partitions up to the end of 2024;
\* minute 0 of the model lies four hours before that
PartitionEnd == 240

SeatCounts == {2, 3}

\* the values update_user writes into a user's identity fields (name, age, phone)
Names == {1, 2}

\* the promo codes apply_promo is called with
PromoIds == {1}

\* a window shorter than the minimum duration: half an hour
ShortWindows == { <<120, 150>> }

\* the windows the validations are tried on: two the validations let through, a
\* short one and the malformed ones
ValidationWindows == { <<120, 240>>, <<240, 360>> } \cup ShortWindows \cup BadWindows

\* the windows requests are drawn from while tables and users come and go
LookupWindows == { <<120, 240>>, <<300, 180>> }

\* the amounts fauset_user is called with
Deposits == {100}

\* the most fauset_user deposits to one user before deposits stop
MaxDeposit == 100

\* the promos update_promo writes: <<discount, expires_at>>
PromoOffers == { <<99, 600>>, <<1, 5>> }

\* PromoAdd.discount: conint(ge=1, le=99)
MinDiscount == 1
MaxDiscount == 99

\* timedelta(minutes=10), the shortest life create_promo and update_promo accept
PromoLife == 10

\* the table number and the prices create_table is called with (TableAdd.price
\* is a Decimal without a lower bound)
NewTableIds == {3}
TablePrices == {-500, 700}

\* windows on either side of the minimum duration: one hour, one hour and a minute
BoundaryWindows == { <<60, 120>>, <<60, 121>> }

\* ways the storage can fail inside a write transaction
Faults == {"none", "stmt1", "stmt2"}

-----------------------------------------------------------------------------
(* The store *)

\* the rows a write transaction works on
DB == [users |-> users, tables |-> tables, reservations |-> reservations,
       completed |-> completed, refunds |-> refunds]

\* a NUMERIC(15,2) column rounds a four-decimal value half away from zero
Round2(x4) == IF x4 >= 0 THEN (x4 + 50) \div 100 ELSE 0 - ((50 - x4) \div 100)

\* the availability query with its two time parameters in the other order
OverlappingRowsSwapped(rows, table_id, start_time, end_time) ==
    { r \in DOMAIN rows : /\ rows[r].table_id = table_id
                          /\ rows[r].start_time < start_time
                          /\ rows[r].end_time > end_time }

\* the availability query on closed intervals
OverlappingRowsClosed(rows, table_id, start_time, end_time) ==
    { r \in DOMAIN rows : /\ rows[r].table_id = table_id
                          /\ rows[r].start_time <= end_time
                          /\ rows[r].end_time >= start_time }

\* WHERE table_id = %s AND (start_time < %s AND end_time > %s), params (table_id, end, start)
OverlappingRows(rows, table_id, start_time, end_time) ==
    { r \in DOMAIN rows : /\ rows[r].table_id = table_id
                          /\ rows[r].start_time < end_time
                          /\ rows[r].end_time > start_time }

\* SELECT users.balance, promocodes.discount FROM users LEFT JOIN promocodes ...
Discount(u) ==
    IF users[u].promocode_id \in DOMAIN promocodes
    THEN promocodes[users[u].promocode_id].discount
    ELSE 0

\* the discount added to the price instead of taken off it
FinalPriceSurcharge(price, discount) == price * 100 + price * discount

\* final_price = price - price * (Decimal(discount) / Decimal(100)), four decimals
FinalPrice(price, discount) == price * 100 - price * discount

\* the funds check left out
InsufficientFundsUnchecked(final_price, balance) == FALSE

\* if final_price > balance: the four-decimal price against the two-decimal balance
InsufficientFunds(final_price, balance) == final_price > balance * 100

\* the archive's partitions cover start_time < PartitionEnd
InPartition(start_time) == start_time < PartitionEnd

\* INSERT INTO reservations (...) VALUES (...) RETURNING id
InsertReservation(db, id, l) ==
    [db EXCEPT !.reservations = (id :> [user_id |-> l.user_id, table_id |-> l.table_id,
                                        start_time |-> l.start_time, end_time |-> l.end_time,
                                        price |-> Round2(l.final_price)]) @@ @,
                !.refunds = (id :> 0) @@ @]

\* the foreign keys of reservations: user_id and table_id must name rows
ForeignKeysHold(db, l) == l.user_id \in DOMAIN db.users /\ l.table_id \in DOMAIN db.tables

\* UPDATE users SET balance = balance - %s WHERE id = %s (amount with four decimals)
DebitBalance(db, user_id, amount4) ==
    IF user_id \in DOMAIN db.users
    THEN [db EXCEPT !.users[user_id].balance = Round2(@ * 100 - amount4)]
    ELSE db

\* the refund applied with the sign of a debit
CreditBalanceDebits(db, user_id, price, rid) ==
    IF user_id \in DOMAIN db.users
    THEN [db EXCEPT !.users[user_id].balance = @ - price, !.refunds[rid] = @ + 1]
    ELSE db

\* UPDATE users SET balance = balance + %s WHERE id = %s RETURNING id (price with two decimals)
CreditBalance(db, user_id, price, rid) ==
    IF user_id \in DOMAIN db.users
    THEN [db EXCEPT !.users[user_id].balance = @ + price, !.refunds[rid] = @ + 1]
    ELSE db

\* the DELETE without its WHERE clause: every reservation goes with the one named
DeleteReservationEvery(db, id) ==
    [db EXCEPT !.reservations = IF id \in DOMAIN @ THEN << >> ELSE @]

\* DELETE FROM reservations WHERE id = %s RETURNING id
DeleteReservation(db, id) ==
    [db EXCEPT !.reservations = [r \in DOMAIN @ \ {id} |-> @[r]]]

\* the archive INSERT with start_time and end_time in each other's place
InsertCompletedSwapped(db, cid, row) ==
    [db EXCEPT !.completed = (cid :> [user_id |-> row.user_id, table_id |-> row.table_id,
                                      start_time |-> row.end_time, end_time |-> row.start_time,
                                      price |-> row.price, name |-> row.name,
                                      promocode_id |-> row.promocode_id,
                                      rid |-> row.id]) @@ @]

\* INSERT INTO reservations_completed (...) VALUES (...) RETURNING id
InsertCompleted(db, cid, row) ==
    [db EXCEPT !.completed = (cid :> [user_id |-> row.user_id, table_id |-> row.table_id,
                                      start_time |-> row.start_time, end_time |-> row.end_time,
                                      price |-> row.price, name |-> row.name,
                                      promocode_id |-> row.promocode_id,
                                      rid |-> row.id]) @@ @]

\* a rollback that leaves the writes made so far in the store
RollbackKeepsWrites(before, partial) == partial

\* conn.rollback(): the writes of the transaction are dropped
Rollback(before, partial) == before

\* conn.commit(): the writes of the transaction become the store
Commit(before, written) == written

-----------------------------------------------------------------------------
(* Initial state: two funded users, two tables, one promo *)

\* no response was sent by the last step
NoReply == [op |-> "none", status |-> 0, detail |-> "none", id |-> 0]

Init ==
    /\ now = 0
    /\ users = (1 :> [name |-> 1, promocode_id |-> NULL, balance |-> 1000]) @@
               (2 :> [name |-> 1, promocode_id |-> 1, balance |-> 400])
    /\ tables = (1 :> [price |-> 600, seats |-> 2]) @@
                (2 :> [price |-> 301, seats |-> 4])
    /\ promocodes = (1 :> [discount |-> 50, expires_at |-> 600])
    /\ reservations = << >>
    /\ completed = << >>
    /\ seq = [reservations |-> 1, completed |-> 1]
    /\ pc = [p \in Workers |-> "idle"]
    /\ local = [p \in Workers |-> [op |-> "none"]]
    /\ resp = NoReply
    /\ refunds = << >>

-----------------------------------------------------------------------------
(* Responses and the effect of a finished transaction *)

Silent == resp' = NoReply

\* the handler returns (status 200) or raises HTTPException(status, detail)
Reply(p, op, status, detail, id) ==
    /\ resp' = [op |-> op, status |-> status, detail |-> detail, id |-> id]
    /\ pc' = [pc EXCEPT ![p] = "idle"]
    /\ local' = [local EXCEPT ![p] = [op |-> "none"]]

\* the store after a transaction ended with db
Store(db) ==
    /\ users' = db.users
    /\ tables' = db.tables
    /\ reservations' = db.reservations
    /\ completed' = db.completed
    /\ refunds' = db.refunds

StoreUnchanged == UNCHANGED <<users, tables, reservations, completed, refunds>>

\* a request is served by the first free worker (the workers are interchangeable)
Dispatched(p) == pc[p] = "idle" /\ \A q \in Workers : q < p => pc[q] # "idle"

\* requests inside create_reservation
Creating == { p \in Workers : pc[p] \in {"c_balance", "c_check", "c_write"} }

-----------------------------------------------------------------------------
(* create_reservation *)

\* the validations with a duration check that lets a window of exactly one hour through
CreateStartHourAllowed(p, t, w, seats) ==
    /\ Dispatched(p)
    /\ seq.reservations + Cardinality(Creating) <= MaxReservations
    /\ \E u \in UserIds :
         LET start_time == w[1]
             end_time == w[2]
         IN  IF start_time >= end_time
             THEN Reply(p, "create", 400, "The start time is greater than the end time.", 0)
             ELSE IF start_time < now
             THEN Reply(p, "create", 400, "The reservation start date must not start earlier than the current time.", 0)
             ELSE IF start_time + Hour > end_time
             THEN Reply(p, "create", 400, "Minimum reservation time 1 hour.", 0)
             ELSE IF t \notin DOMAIN tables
             THEN Reply(p, "create", 404, "Invalid tables_id", 0)
             ELSE IF seats > tables[t].seats
             THEN Reply(p, "create", 400, "This table only seats", 0)
             ELSE /\ pc' = [pc EXCEPT ![p] = "c_balance"]
                  /\ local' = [local EXCEPT ![p] =
                        [op |-> "create", user_id |-> u, table_id |-> t,
                         start_time |-> start_time, end_time |-> end_time,
                         price |-> tables[t].price, final_price |-> 0]]
                  /\ Silent
    /\ StoreUnchanged
    /\ UNCHANGED <<now, promocodes, seq>>

\* the validations without the comparison of the party with the table's seats
CreateStartAnySeats(p, t, w, seats) ==
    /\ Dispatched(p)
    /\ seq.reservations + Cardinality(Creating) <= MaxReservations
    /\ \E u \in UserIds :
         LET start_time == w[1]
             end_time == w[2]
         IN  IF start_time >= end_time
             THEN Reply(p, "create", 400, "The start time is greater than the end time.", 0)
             ELSE IF start_time < now
             THEN Reply(p, "create", 400, "The reservation start date must not start earlier than the current time.", 0)
             ELSE IF start_time + Hour >= end_time
             THEN Reply(p, "create", 400, "Minimum reservation time 1 hour.", 0)
             ELSE IF t \notin DOMAIN tables
             THEN Reply(p, "create", 404, "Invalid tables_id", 0)
             ELSE IF FALSE
             THEN Reply(p, "create", 400, "This table only seats", 0)
             ELSE /\ pc' = [pc EXCEPT ![p] = "c_balance"]
                  /\ local' = [local EXCEPT ![p] =
                        [op |-> "create", user_id |-> u, table_id |-> t,
                         start_time |-> start_time, end_time |-> end_time,
                         price |-> tables[t].price, final_price |-> 0]]
                  /\ Silent
    /\ StoreUnchanged
    /\ UNCHANGED <<now, promocodes, seq>>

\* lines 95-117: the validations, get_table_info and the seat check
CreateStart(p, t, w, seats) ==
    /\ Dispatched(p)
    /\ seq.reservations + Cardinality(Creating) <= MaxReservations
    /\ \E u \in UserIds :
         LET start_time == w[1]
             end_time == w[2]
         IN  IF start_time >= end_time
             THEN Reply(p, "create", 400, "The start time is greater than the end time.", 0)
             ELSE IF start_time < now
             THEN Reply(p, "create", 400, "The reservation start date must not start earlier than the current time.", 0)
             ELSE IF start_time + Hour >= end_time
             THEN Reply(p, "create", 400, "Minimum reservation time 1 hour.", 0)
             ELSE IF t \notin DOMAIN tables
             THEN Reply(p, "create", 404, "Invalid tables_id", 0)
             ELSE IF seats > tables[t].seats
             THEN Reply(p, "create", 400, "This table only seats", 0)
             ELSE /\ pc' = [pc EXCEPT ![p] = "c_balance"]
                  /\ local' = [local EXCEPT ![p] =
                        [op |-> "create", user_id |-> u, table_id |-> t,
                         start_time |-> start_time, end_time |-> end_time,
                         price |-> tables[t].price, final_price |-> 0]]
                  /\ Silent
    /\ StoreUnchanged
    /\ UNCHANGED <<now, promocodes, seq>>

\* the balance lookup reporting an absent user as a bad request
CreateBalanceBadRequest(p) ==
    /\ pc[p] = "c_balance"
    /\ LET l == local[p] IN
       IF l.user_id \notin DOMAIN users
       THEN Reply(p, "create", 400, "Invalid user_id", 0)
       ELSE LET final_price == FinalPrice(l.price, Discount(l.user_id)) IN
            IF InsufficientFunds(final_price, users[l.user_id].balance)
            THEN Reply(p, "create", 400, "Insufficient money for reservation.", 0)
            ELSE /\ pc' = [pc EXCEPT ![p] = "c_check"]
                 /\ local' = [local EXCEPT ![p].final_price = final_price]
                 /\ Silent
    /\ StoreUnchanged
    /\ UNCHANGED <<now, promocodes, seq>>

\* lines 119-126: get_balance, the final price and the funds check
CreateBalance(p) ==
    /\ pc[p] = "c_balance"
    /\ LET l == local[p] IN
       IF l.user_id \notin DOMAIN users
       THEN Reply(p, "create", 404, "Invalid user_id", 0)
       ELSE LET final_price == FinalPrice(l.price, Discount(l.user_id)) IN
            IF InsufficientFunds(final_price, users[l.user_id].balance)
            THEN Reply(p, "create", 400, "Insufficient money for reservation.", 0)
            ELSE /\ pc' = [pc EXCEPT ![p] = "c_check"]
                 /\ local' = [local EXCEPT ![p].final_price = final_price]
                 /\ Silent
    /\ StoreUnchanged
    /\ UNCHANGED <<now, promocodes, seq>>

\* lines 128-130: check_reservation
CreateCheck(p) ==
    /\ pc[p] = "c_check"
    /\ LET l == local[p] IN
       IF OverlappingRows(reservations, l.table_id, l.start_time, l.end_time) # {}
       THEN Reply(p, "create", 400, "Table is already reserved for the specified time.", 0)
       ELSE /\ pc' = [pc EXCEPT ![p] = "c_write"]
            /\ UNCHANGED local
            /\ Silent
    /\ StoreUnchanged
    /\ UNCHANGED <<now, promocodes, seq>>

\* the two statements of create_reservation each committed on its own: a failure
\* of the UPDATE leaves the INSERT in the store
CreateTxAutocommit(db, id, l, fault) ==
    LET s1 == InsertReservation(db, id, l)
        s2 == DebitBalance(s1, l.user_id, l.final_price)
    IN  IF fault = "stmt1"
        THEN [db |-> db, status |-> 400, detail |-> "storage fault", id |-> 0]
        ELSE IF ~ForeignKeysHold(db, l)
        THEN [db |-> db, status |-> 400, detail |-> "foreign key violation", id |-> 0]
        ELSE IF fault = "stmt2"
        THEN [db |-> s1, status |-> 400, detail |-> "storage fault", id |-> 0]
        ELSE [db |-> s2, status |-> 200, detail |-> "created", id |-> id]

\* lines 132-160: INSERT the reservation, UPDATE the balance, commit; rollback on any exception
CreateTx(db, id, l, fault) ==
    LET s1 == InsertReservation(db, id, l)
        s2 == DebitBalance(s1, l.user_id, l.final_price)
    IN  IF fault = "stmt1"
        THEN [db |-> Rollback(db, db), status |-> 400, detail |-> "storage fault", id |-> 0]
        ELSE IF ~ForeignKeysHold(db, l)
        THEN [db |-> Rollback(db, db), status |-> 400, detail |-> "foreign key violation", id |-> 0]
        ELSE IF fault = "stmt2"
        THEN [db |-> Rollback(db, s1), status |-> 400, detail |-> "storage fault", id |-> 0]
        ELSE [db |-> Commit(db, s2), status |-> 200, detail |-> "created", id |-> id]

CreateWrite(p) ==
    /\ pc[p] = "c_write"
    /\ \E fault \in Faults :
         LET id == seq.reservations
             tx == CreateTx(DB, id, local[p], fault)
         IN  /\ Store(tx.db)
             /\ Reply(p, "create", tx.status, tx.detail, tx.id)
             /\ seq' = IF tx.status = 200 THEN [seq EXCEPT !.reservations = id + 1] ELSE seq
    /\ UNCHANGED <<now, promocodes>>


-----------------------------------------------------------------------------
(* apply_reservation: complete a reservation *)

\* lines 183-201: SELECT the reservation LEFT JOIN its user
JoinedRow(id) ==
    LET r == reservations[id]
        known == r.user_id \in DOMAIN users
    IN  [id |-> id, user_id |-> r.user_id, table_id |-> r.table_id,
         start_time |-> r.start_time, end_time |-> r.end_time, price |-> r.price,
         name |-> IF known THEN users[r.user_id].name ELSE NULL,
         promocode_id |-> IF known THEN users[r.user_id].promocode_id ELSE NULL]

ApplyStart(p) ==
    /\ Dispatched(p)
    /\ \E id \in 1..MaxReservations :
         IF id \notin DOMAIN reservations
         THEN Reply(p, "apply", 404, "Reservation not found", id)
         ELSE /\ pc' = [pc EXCEPT ![p] = "a_write"]
              /\ local' = [local EXCEPT ![p] = [op |-> "apply", row |-> JoinedRow(id)]]
              /\ Silent
    /\ StoreUnchanged
    /\ UNCHANGED <<now, promocodes, seq>>

\* lines 203-254: INSERT the archive row, DELETE the reservation RETURNING id, commit;
\* a DELETE that returns no row makes row[0] raise, and every exception rolls back
ApplyTx(db, cid, row, fault) ==
    LET s1 == InsertCompleted(db, cid, row)
        s2 == DeleteReservation(s1, row.id)
    IN  IF fault = "stmt1"
        THEN [db |-> Rollback(db, db), status |-> 400, detail |-> "storage fault", id |-> row.id]
        ELSE IF ~InPartition(row.start_time)
        THEN [db |-> Rollback(db, db), status |-> 400, detail |-> "no partition of relation found for row", id |-> row.id]
        ELSE IF row.name = NULL
        THEN [db |-> Rollback(db, db), status |-> 400, detail |-> "null value in column name", id |-> row.id]
        ELSE IF fault = "stmt2"
        THEN [db |-> Rollback(db, s1), status |-> 400, detail |-> "storage fault", id |-> row.id]
        ELSE IF row.id \notin DOMAIN s1.reservations
        THEN [db |-> Rollback(db, s2), status |-> 400, detail |-> "NoneType object is not subscriptable", id |-> row.id]
        ELSE [db |-> Commit(db, s2), status |-> 200, detail |-> "moved", id |-> row.id]

ApplyWrite(p) ==
    /\ pc[p] = "a_write"
    /\ \E fault \in Faults :
         LET cid == seq.completed
             tx == ApplyTx(DB, cid, local[p].row, fault)
         IN  /\ Store(tx.db)
             /\ Reply(p, "apply", tx.status, tx.detail, tx.id)
             /\ seq' = IF tx.status = 200 THEN [seq EXCEPT !.completed = cid + 1] ELSE seq
    /\ UNCHANGED <<now, promocodes>>


-----------------------------------------------------------------------------
(* cancel_reservation *)

\* lines 277-284: SELECT user_id, price FROM reservations WHERE id = %s
CancelStart(p) ==
    /\ Dispatched(p)
    /\ \E id \in 1..MaxReservations :
         IF id \notin DOMAIN reservations
         THEN Reply(p, "cancel", 404, "Reservation not found", id)
         ELSE /\ pc' = [pc EXCEPT ![p] = "x_write"]
              /\ local' = [local EXCEPT ![p] =
                    [op |-> "cancel", id |-> id, user_id |-> reservations[id].user_id,
                     price |-> reservations[id].price]]
              /\ Silent
    /\ StoreUnchanged
    /\ UNCHANGED <<now, promocodes, seq>>

\* cancel_reservation without the RETURNING row of its DELETE: the refund is
\* committed also when the reservation is already gone
CancelTxUnchecked(db, l, fault) ==
    LET s1 == CreditBalance(db, l.user_id, l.price, l.id)
        s2 == DeleteReservation(s1, l.id)
    IN  IF fault = "stmt1"
        THEN [db |-> Rollback(db, db), status |-> 400, detail |-> "storage fault", id |-> l.id]
        ELSE IF l.user_id \notin DOMAIN db.users
        THEN [db |-> Rollback(db, s1), status |-> 400, detail |-> "NoneType object is not subscriptable", id |-> l.id]
        ELSE IF fault = "stmt2"
        THEN [db |-> Rollback(db, s1), status |-> 400, detail |-> "storage fault", id |-> l.id]
        ELSE [db |-> Commit(db, s2), status |-> 200, detail |-> "cancel", id |-> l.id]

\* lines 286-315: UPDATE the balance RETURNING id, DELETE the reservation RETURNING id,
\* commit; an empty RETURNING makes row[0] raise, and every exception rolls back
CancelTx(db, l, fault) ==
    LET s1 == CreditBalance(db, l.user_id, l.price, l.id)
        s2 == DeleteReservation(s1, l.id)
    IN  IF fault = "stmt1"
        THEN [db |-> Rollback(db, db), status |-> 400, detail |-> "storage fault", id |-> l.id]
        ELSE IF l.user_id \notin DOMAIN db.users
        THEN [db |-> Rollback(db, s1), status |-> 400, detail |-> "NoneType object is not subscriptable", id |-> l.id]
        ELSE IF fault = "stmt2"
        THEN [db |-> Rollback(db, s1), status |-> 400, detail |-> "storage fault", id |-> l.id]
        ELSE IF l.id \notin DOMAIN s1.reservations
        THEN [db |-> Rollback(db, s2), status |-> 400, detail |-> "NoneType object is not subscriptable", id |-> l.id]
        ELSE [db |-> Commit(db, s2), status |-> 200, detail |-> "cancel", id |-> l.id]

CancelWrite(p) ==
    /\ pc[p] = "x_write"
    /\ \E fault \in Faults :
         LET tx == CancelTx(DB, local[p], fault)
         IN  /\ Store(tx.db)
             /\ Reply(p, "cancel", tx.status, tx.detail, tx.id)
    /\ UNCHANGED <<now, promocodes, seq>>


-----------------------------------------------------------------------------
(* delete_table and delete_user; a table is named by its table_number and a
   user by its email, both unique keys that never change, which stand for the
   row ids here *)

\* tables.py lines 60-67: SELECT id FROM tables WHERE table_number = %s
DeleteTableStart(p, t) ==
    /\ Dispatched(p)
    /\ IF t \notin DOMAIN tables
       THEN Reply(p, "delete_table", 404, "Table with this table_number was not found", t)
       ELSE /\ pc' = [pc EXCEPT ![p] = "t_select"]
            /\ local' = [local EXCEPT ![p] = [op |-> "delete_table", table_id |-> t, rows |-> << >>]]
            /\ Silent
    /\ StoreUnchanged
    /\ UNCHANGED <<now, promocodes, seq>>

\* tables.py lines 72-76: SELECT user_id, price FROM reservations WHERE table_id = %s,
\* the first statement of the transaction; it sees the rows committed so far
DeleteTableSelect(p) ==
    /\ pc[p] = "t_select"
    /\ LET ids == { r \in DOMAIN reservations : reservations[r].table_id = local[p].table_id }
       IN  local' = [local EXCEPT ![p].rows =
                        [r \in ids |-> [user_id |-> reservations[r].user_id,
                                        price |-> reservations[r].price]]]
    /\ pc' = [pc EXCEPT ![p] = "t_write"]
    /\ Silent
    /\ StoreUnchanged
    /\ UNCHANGED <<now, promocodes, seq>>

\* tables.py lines 77-83: for row in rows: UPDATE users SET balance = balance + %s WHERE id = %s
RECURSIVE CreditRows(_, _, _)
CreditRows(db, rows, ids) ==
    IF ids = {}
    THEN db
    ELSE LET r == CHOOSE i \in ids : TRUE
         IN  CreditRows(CreditBalance(db, rows[r].user_id, rows[r].price, r), rows, ids \ {r})

\* DELETE FROM tables WHERE id = %s RETURNING id, with ON DELETE CASCADE on reservations.table_id
DeleteTableRow(db, t) ==
    LET kept == { r \in DOMAIN db.reservations : db.reservations[r].table_id # t }
    IN  [db EXCEPT !.tables = [x \in DOMAIN db.tables \ {t} |-> db.tables[x]],
                   !.reservations = [r \in kept |-> db.reservations[r]]]

\* tables.py lines 69-98: the credits for the rows read, the DELETE, commit; a
\* DELETE that returns no row makes row[0] raise, and every exception rolls back
DeleteTableTx(db, l, fault) ==
    LET s1 == CreditRows(db, l.rows, DOMAIN l.rows)
        s2 == DeleteTableRow(s1, l.table_id)
    IN  IF fault = "stmt1"
        THEN [db |-> Rollback(db, db), status |-> 400, detail |-> "storage fault", id |-> l.table_id]
        ELSE IF fault = "stmt2"
        THEN [db |-> Rollback(db, s1), status |-> 400, detail |-> "storage fault", id |-> l.table_id]
        ELSE IF l.table_id \notin DOMAIN s1.tables
        THEN [db |-> Rollback(db, s2), status |-> 400, detail |-> "NoneType object is not subscriptable", id |-> l.table_id]
        ELSE [db |-> Commit(db, s2), status |-> 200, detail |-> "deleted", id |-> l.table_id]

DeleteTableWrite(p) ==
    /\ pc[p] = "t_write"
    /\ \E fault \in Faults :
         LET tx == DeleteTableTx(DB, local[p], fault)
         IN  /\ Store(tx.db)
             /\ Reply(p, "delete_table", tx.status, tx.detail, tx.id)
    /\ UNCHANGED <<now, promocodes, seq>>

\* the deletion of a user that leaves the reservations of that user in place
DeleteUserRowOnly(db, u) ==
    [db EXCEPT !.users = [x \in DOMAIN db.users \ {u} |-> db.users[x]]]

\* the deletion of a user cascading to the archive rows of that user as well
DeleteUserRowArchive(db, u) ==
    LET kept == { r \in DOMAIN db.reservations : db.reservations[r].user_id # u }
        arch == { c \in DOMAIN db.completed : db.completed[c].user_id # u }
    IN  [db EXCEPT !.users = [x \in DOMAIN db.users \ {u} |-> db.users[x]],
                   !.reservations = [r \in kept |-> db.reservations[r]],
                   !.completed = [c \in arch |-> db.completed[c]]]

\* DELETE FROM users WHERE email = %s RETURNING id, with ON DELETE CASCADE on reservations.user_id
DeleteUserRow(db, u) ==
    LET kept == { r \in DOMAIN db.reservations : db.reservations[r].user_id # u }
    IN  [db EXCEPT !.users = [x \in DOMAIN db.users \ {u} |-> db.users[x]],
                   !.reservations = [r \in kept |-> db.reservations[r]]]

\* users.py lines 139-148: delete_user, one statement
DeleteUser(p, u) ==
    /\ Dispatched(p)
    /\ IF u \notin DOMAIN users
       THEN /\ Reply(p, "delete_user", 404, "User with this email was not found", u)
            /\ StoreUnchanged
       ELSE /\ Reply(p, "delete_user", 200, "deleted", u)
            /\ Store(DeleteUserRow(DB, u))
    /\ UNCHANGED <<now, promocodes, seq>>

-----------------------------------------------------------------------------
(* update_user and apply_promo; name stands for the identity fields name, age
   and phone, and a promo is named by its code, a unique key *)

\* users.py lines 128-137: UPDATE users SET (name, age, email, phone) = (...) WHERE email = %s
UpdateUser(p, u, name) ==
    /\ Dispatched(p)
    /\ IF u \notin DOMAIN users
       THEN /\ Reply(p, "update_user", 404, "User with this email was not found", u)
            /\ UNCHANGED users
       ELSE /\ Reply(p, "update_user", 200, "updated", u)
            /\ users' = [users EXCEPT ![u].name = name]
    /\ UNCHANGED <<now, tables, promocodes, reservations, completed, seq, refunds>>

\* promocodes.py lines 113-115: get_promocode and the expiry check
ApplyPromoStart(p, u, c) ==
    /\ Dispatched(p)
    /\ IF c \notin DOMAIN promocodes
       THEN Reply(p, "apply_promo", 404, "Promocode not found", u)
       ELSE IF now >= promocodes[c].expires_at
       THEN Reply(p, "apply_promo", 400, "Promocode has expired", u)
       ELSE /\ pc' = [pc EXCEPT ![p] = "p_user"]
            /\ local' = [local EXCEPT ![p] = [op |-> "apply_promo", user_id |-> u, promocode_id |-> c]]
            /\ Silent
    /\ StoreUnchanged
    /\ UNCHANGED <<now, promocodes, seq>>

\* promocodes.py lines 117-123: SELECT 1 FROM users WHERE email = %s
ApplyPromoUser(p) ==
    /\ pc[p] = "p_user"
    /\ IF local[p].user_id \notin DOMAIN users
       THEN Reply(p, "apply_promo", 404, "User with this email was not found", local[p].user_id)
       ELSE /\ pc' = [pc EXCEPT ![p] = "p_write"]
            /\ UNCHANGED local
            /\ Silent
    /\ StoreUnchanged
    /\ UNCHANGED <<now, promocodes, seq>>

\* promocodes.py lines 125-131: UPDATE users SET promocode_id = %s WHERE email = %s RETURNING id
ApplyPromoWrite(p) ==
    /\ pc[p] = "p_write"
    /\ LET l == local[p] IN
       IF l.user_id \notin DOMAIN users
       THEN /\ Reply(p, "apply_promo", 400, "Error updating users record", l.user_id)
            /\ UNCHANGED users
       ELSE /\ Reply(p, "apply_promo", 200, "updated", l.user_id)
            /\ users' = [users EXCEPT ![l.user_id].promocode_id = l.promocode_id]
    /\ UNCHANGED <<now, tables, promocodes, reservations, completed, seq, refunds>>

-----------------------------------------------------------------------------
(* fauset_user, update_promo and delete_promo *)

\* users.py lines 108-116: SELECT balance FROM users WHERE email = %s; new_balance = balance + amount
FausetStart(p, u, amount) ==
    /\ Dispatched(p)
    /\ IF u \notin DOMAIN users
       THEN Reply(p, "fauset", 404, "User with this email was not found", u)
       ELSE /\ users[u].deposited + amount <= MaxDeposit
            /\ pc' = [pc EXCEPT ![p] = "f_write"]
            /\ local' = [local EXCEPT ![p] =
                  [op |-> "fauset", user_id |-> u, amount |-> amount,
                   new_balance |-> users[u].balance + amount]]
            /\ Silent
    /\ StoreUnchanged
    /\ UNCHANGED <<now, promocodes, seq>>

\* users.py lines 118-126: UPDATE users SET balance = %s WHERE email = %s RETURNING id;
\* deposited is history: the sum of the amounts fauset_user reported as added
FausetWrite(p) ==
    /\ pc[p] = "f_write"
    /\ LET l == local[p] IN
       IF l.user_id \notin DOMAIN users
       THEN /\ Reply(p, "fauset", 404, "User with this email was not found", l.user_id)
            /\ UNCHANGED users
       ELSE /\ Reply(p, "fauset", 200, "ok", l.user_id)
            /\ users' = [users EXCEPT ![l.user_id].balance = l.new_balance,
                                      ![l.user_id].deposited = @ + l.amount]
    /\ UNCHANGED <<now, tables, promocodes, reservations, completed, seq, refunds>>

\* promocodes.py lines 79-96: the check of expires_at, then
\* UPDATE promocodes SET (code, created_at, expires_at, discount) = (...) WHERE code = %s
UpdatePromo(p, c, discount, expires_at) ==
    /\ Dispatched(p)
    /\ discount \in MinDiscount..MaxDiscount
    /\ IF expires_at <= now + PromoLife
       THEN /\ Reply(p, "update_promo", 400, "The promo code expires too short. Must be at least 10 minutes", c)
            /\ UNCHANGED promocodes
       ELSE IF c \notin DOMAIN promocodes
       THEN /\ Reply(p, "update_promo", 400, "Promocode with this code was not found", c)
            /\ UNCHANGED promocodes
       ELSE /\ Reply(p, "update_promo", 200, "updated", c)
            /\ promocodes' = [promocodes EXCEPT ![c] = [discount |-> discount, expires_at |-> expires_at]]
    /\ StoreUnchanged
    /\ UNCHANGED <<now, seq>>

\* promocodes.py lines 159-168: DELETE FROM promocodes WHERE code = %s RETURNING id;
\* users.promocode_id is declared ON DELETE SET NULL
DeletePromo(p, c) ==
    /\ Dispatched(p)
    /\ IF c \notin DOMAIN promocodes
       THEN /\ Reply(p, "delete_promo", 404, "Promocode with this code was not found", c)
            /\ UNCHANGED <<promocodes, users>>
       ELSE /\ Reply(p, "delete_promo", 200, "deleted", c)
            /\ promocodes' = [x \in DOMAIN promocodes \ {c} |-> promocodes[x]]
            /\ users' = [u \in DOMAIN users |->
                            IF users[u].promocode_id = c
                            THEN [users[u] EXCEPT !.promocode_id = NULL]
                            ELSE users[u]]
    /\ UNCHANGED <<now, tables, reservations, completed, seq, refunds>>

-----------------------------------------------------------------------------
(* create_table *)

\* tables.py lines 50-57: INSERT INTO tables (table_number, price, seats) VALUES (...)
\* ON CONFLICT (table_number) DO NOTHING RETURNING id
CreateTable(p, t, price, seats) ==
    /\ Dispatched(p)
    /\ IF t \in DOMAIN tables
       THEN /\ Reply(p, "create_table", 400, "Table exists", t)
            /\ UNCHANGED tables
       ELSE /\ Reply(p, "create_table", 200, "created", t)
            /\ tables' = (t :> [price |-> price, seats |-> seats]) @@ tables
    /\ UNCHANGED <<now, users, promocodes, reservations, completed, seq, refunds>>

-----------------------------------------------------------------------------
(* create_reservation with its first storage access as a step of its own *)

\* the window checks without the comparison of start_time with the clock
CreateValidatePastAllowed(p, t, w, seats) ==
    /\ Dispatched(p)
    /\ seq.reservations + Cardinality(Creating \cup { q \in Workers : pc[q] = "c_table" })
          <= MaxReservations
    /\ \E u \in UserIds :
         LET start_time == w[1]
             end_time == w[2]
         IN  IF start_time >= end_time
             THEN Reply(p, "create", 400, "The start time is greater than the end time.", 0)
             ELSE IF start_time + Hour >= end_time
             THEN Reply(p, "create", 400, "Minimum reservation time 1 hour.", 0)
             ELSE /\ pc' = [pc EXCEPT ![p] = "c_table"]
                  /\ local' = [local EXCEPT ![p] =
                        [op |-> "create", user_id |-> u, table_id |-> t,
                         start_time |-> start_time, end_time |-> end_time,
                         seats |-> seats]]
                  /\ Silent
    /\ StoreUnchanged
    /\ UNCHANGED <<now, promocodes, seq>>

\* lines 95-109: the three checks of the window, which read the request and the clock only
CreateValidate(p, t, w, seats) ==
    /\ Dispatched(p)
    /\ seq.reservations + Cardinality(Creating \cup { q \in Workers : pc[q] = "c_table" })
          <= MaxReservations
    /\ \E u \in UserIds :
         LET start_time == w[1]
             end_time == w[2]
         IN  IF start_time >= end_time
             THEN Reply(p, "create", 400, "The start time is greater than the end time.", 0)
             ELSE IF start_time < now
             THEN Reply(p, "create", 400, "The reservation start date must not start earlier than the current time.", 0)
             ELSE IF start_time + Hour >= end_time
             THEN Reply(p, "create", 400, "Minimum reservation time 1 hour.", 0)
             ELSE /\ pc' = [pc EXCEPT ![p] = "c_table"]
                  /\ local' = [local EXCEPT ![p] =
                        [op |-> "create", user_id |-> u, table_id |-> t,
                         start_time |-> start_time, end_time |-> end_time,
                         seats |-> seats]]
                  /\ Silent
    /\ StoreUnchanged
    /\ UNCHANGED <<now, promocodes, seq>>

\* lines 111-117: get_table_info (SELECT price, seats FROM tables WHERE id = %s), then
\* the seat check on the row it returned
CreateTableInfo(p) ==
    /\ pc[p] = "c_table"
    /\ LET l == local[p] IN
       IF l.table_id \notin DOMAIN tables
       THEN Reply(p, "create", 404, "Invalid tables_id", 0)
       ELSE IF l.seats > tables[l.table_id].seats
       THEN Reply(p, "create", 400, "This table only seats", 0)
       ELSE /\ pc' = [pc EXCEPT ![p] = "c_balance"]
            /\ local' = [local EXCEPT ![p] =
                  [op |-> "create", user_id |-> l.user_id, table_id |-> l.table_id,
                   start_time |-> l.start_time, end_time |-> l.end_time,
                   price |-> tables[l.table_id].price, final_price |-> 0]]
            /\ Silent
    /\ StoreUnchanged
    /\ UNCHANGED <<now, promocodes, seq>>

-----------------------------------------------------------------------------
(* The connections of the pool: every operation seen as the sequence of its
   execute_query calls followed by its write transaction, each of which takes
   a connection, works inside try and releases it in finally *)

\* the operations that take connections
PoolOps == {"create", "apply", "cancel", "delete_table", "execute_query"}

\* the execute_query calls an operation makes before its write transaction:
\* create_reservation get_table_info, get_balance and check_reservation, the
\* others one lookup; execute_query is one such call itself
Queries(op) == IF op = "create" THEN 3 ELSE 1

\* the operation ends with a write transaction on a connection of its own
HasTx(op) == op # "execute_query"

\* an operation is called
PoolCall(p, op) ==
    /\ Dispatched(p)
    /\ pc' = [pc EXCEPT ![p] = "k_next"]
    /\ local' = [local EXCEPT ![p] =
          [op |-> op, conns |-> 0, queries |-> Queries(op), tx |-> HasTx(op), status |-> 200]]
    /\ Silent
    /\ StoreUnchanged
    /\ UNCHANGED <<now, promocodes, seq>>

\* between two storage accesses the handler raises HTTPException (validation,
\* not found, insufficient funds, conflict), outside any try block
PoolRaise(p) ==
    /\ pc[p] = "k_next"
    /\ local[p].op # "execute_query"
    /\ local[p].tx
    /\ \E status \in {400, 404} : Reply(p, local[p].op, status, "raised by the handler", 0)
    /\ StoreUnchanged
    /\ UNCHANGED <<now, promocodes, seq>>

\* db.py lines 19-20, called at db.py line 28 and at reservations.py lines 132, 203, 286
\* and tables.py line 69, before the try block: getconn hands out a connection, or
\* raises when the pool is exhausted
PoolGet(p) ==
    /\ pc[p] = "k_next"
    /\ local[p].queries > 0 \/ local[p].tx
    /\ \/ /\ pc' = [pc EXCEPT ![p] = "k_held"]
          /\ local' = [local EXCEPT ![p].conns = @ + 1]
          /\ Silent
       \/ Reply(p, local[p].op, 500, "connection pool exhausted", 0)
    /\ StoreUnchanged
    /\ UNCHANGED <<now, promocodes, seq>>

\* the body of the try block: the statements and the commit succeed, or one raises
PoolBody(p) ==
    /\ pc[p] = "k_held"
    /\ \/ pc' = [pc EXCEPT ![p] = "k_finally"]
       \/ pc' = [pc EXCEPT ![p] = "k_failed"]
    /\ UNCHANGED local
    /\ Silent
    /\ StoreUnchanged
    /\ UNCHANGED <<now, promocodes, seq>>

\* an except branch that answers at once, leaving the finally block out
PoolExceptReturns(p) ==
    /\ pc[p] = "k_failed"
    /\ Reply(p, local[p].op, 400, "storage fault", 0)
    /\ StoreUnchanged
    /\ UNCHANGED <<now, promocodes, seq>>

\* the exception leaves the try block: the write transactions catch it, roll back and
\* raise HTTPException 400 (reservations.py lines 155-157), execute_query has no except
\* branch and lets it pass; either way the finally block runs next
PoolExcept(p) ==
    /\ pc[p] = "k_failed"
    /\ pc' = [pc EXCEPT ![p] = "k_finally"]
    /\ local' = [local EXCEPT ![p].status = IF local[p].queries = 0 THEN 400 ELSE 500]
    /\ Silent
    /\ StoreUnchanged
    /\ UNCHANGED <<now, promocodes, seq>>

\* db.py lines 22-23, called in finally (db.py line 36, reservations.py lines 159-160,
\* 253-254, 314-315, tables.py lines 97-98): the connection goes back to the pool
PoolFinally(p) ==
    /\ pc[p] = "k_finally"
    /\ LET l == local[p]
           done == l.status # 200 \/ l.queries = 0 \/ (l.queries = 1 /\ ~l.tx)
       IN  /\ pc' = [pc EXCEPT ![p] = IF done THEN "k_exit" ELSE "k_next"]
           /\ local' = [local EXCEPT ![p].conns = @ - 1,
                                     ![p].queries = IF l.queries > 0 THEN @ - 1 ELSE @]
    /\ Silent
    /\ StoreUnchanged
    /\ UNCHANGED <<now, promocodes, seq>>

\* the operation returns its result or lets its exception out
PoolExit(p) ==
    /\ pc[p] = "k_exit"
    /\ Reply(p, local[p].op, local[p].status,
             IF local[p].status = 200 THEN "done" ELSE "storage fault", 0)
    /\ StoreUnchanged
    /\ UNCHANGED <<now, promocodes, seq>>

-----------------------------------------------------------------------------
(* The clock and the specification *)

\* wall-clock time passes
Tick ==
    /\ \E t \in ClockTimes : t > now /\ now' = t
    /\ Silent
    /\ UNCHANGED <<users, tables, promocodes, reservations, completed, seq, pc, local, refunds>>

\* the steps of the handlers after their first one
Continue(p) ==
    \/ CreateBalance(p)
    \/ CreateCheck(p)
    \/ CreateWrite(p)
    \/ ApplyWrite(p)
    \/ CancelWrite(p)

\* concurrent well-formed requests
Next ==
    \/ \E p \in Workers, o \in Offers : CreateStart(p, o[1], o[2], 2)
    \/ \E p \in Workers : ApplyStart(p)
    \/ \E p \in Workers : CancelStart(p)
    \/ \E p \in Workers : Continue(p)

\* the lifecycle operations under concurrency, at a fixed clock reading
Spec == Init /\ [][Next]_vars

\* one request at a time, of any form, while time passes
NextClock ==
    \/ \E t \in TableIds, w \in Windows \cup BadWindows, seats \in SeatCounts :
          CreateStart(1, t, w, seats)
    \/ ApplyStart(1)
    \/ CancelStart(1)
    \/ Continue(1)
    \/ Tick

SpecClock == Init /\ [][NextClock]_vars

\* one request at a time, its window at the minimum duration
NextBoundary ==
    \/ \E t \in TableIds, w \in BoundaryWindows, seats \in SeatCounts :
          CreateStart(1, t, w, seats)
    \/ ApplyStart(1)
    \/ CancelStart(1)
    \/ Continue(1)
    \/ Tick

SpecBoundary == Init /\ [][NextBoundary]_vars

\* one request at a time, well-formed or not, while time passes
NextValidation ==
    \/ \E t \in TableIds, w \in ValidationWindows, seats \in SeatCounts :
          CreateStart(1, t, w, seats)
    \/ ApplyStart(1)
    \/ CancelStart(1)
    \/ Continue(1)
    \/ Tick

SpecValidation == Init /\ [][NextValidation]_vars

\* one request at a time while tables and users are deleted
NextLookup ==
    \/ \E t \in TableIds, w \in LookupWindows, seats \in SeatCounts :
          CreateStart(1, t, w, seats)
    \/ ApplyStart(1)
    \/ CancelStart(1)
    \/ Continue(1)
    \/ \E t \in TableIds : DeleteTableStart(1, t)
    \/ DeleteTableSelect(1)
    \/ DeleteTableWrite(1)
    \/ \E u \in UserIds : DeleteUser(1, u)

SpecLookup == Init /\ [][NextLookup]_vars

\* bookings of one window racing with the deletion of their table
NextVanish ==
    \/ \E p \in Workers, t \in TableIds : CreateStart(p, t, <<120, 240>>, 2)
    \/ \E p \in Workers : CreateBalance(p)
    \/ \E p \in Workers : CreateCheck(p)
    \/ \E p \in Workers : CreateWrite(p)
    \/ \E p \in Workers, t \in TableIds : DeleteTableStart(p, t)
    \/ \E p \in Workers : DeleteTableSelect(p)
    \/ \E p \in Workers : DeleteTableWrite(p)

SpecVanish == Init /\ [][NextVanish]_vars

\* bookings of one table and their completion, while users are updated and
\* promos attached
NextIdentity ==
    \/ \E p \in Workers : CreateStart(p, 1, <<120, 240>>, 2)
    \/ \E p \in Workers : CreateBalance(p)
    \/ \E p \in Workers : CreateCheck(p)
    \/ \E p \in Workers : CreateWrite(p)
    \/ \E p \in Workers : ApplyStart(p)
    \/ \E p \in Workers : ApplyWrite(p)
    \/ \E p \in Workers, u \in UserIds, name \in Names : UpdateUser(p, u, name)
    \/ \E p \in Workers, u \in UserIds, c \in PromoIds : ApplyPromoStart(p, u, c)
    \/ \E p \in Workers : ApplyPromoUser(p)
    \/ \E p \in Workers : ApplyPromoWrite(p)

SpecIdentity == Init /\ [][NextIdentity]_vars

\* one request at a time while tables are added
NextCatalog ==
    \/ \E t \in NewTableIds, price \in TablePrices, seats \in SeatCounts :
          CreateTable(1, t, price, seats)
    \/ \E t \in TableIds \cup NewTableIds, w \in Windows : CreateStart(1, t, w, 2)
    \/ ApplyStart(1)
    \/ CancelStart(1)
    \/ Continue(1)

SpecCatalog == Init /\ [][NextCatalog]_vars

\* one worker books, cancels, completes and deletes tables; between any two of
\* its steps the other updates or deletes users and deletes the promo
NextArchive ==
    \/ CreateStart(1, 1, <<120, 240>>, 2)
    \/ ApplyStart(1)
    \/ CancelStart(1)
    \/ Continue(1)
    \/ DeleteTableStart(1, 1)
    \/ DeleteTableSelect(1)
    \/ DeleteTableWrite(1)
    \/ \E p \in Workers : UpdateUser(p, 1, 2)
    \/ \E p \in Workers : DeleteUser(p, 1)
    \/ \E p \in Workers, c \in PromoIds : DeletePromo(p, c)

SpecArchive == Init /\ [][NextArchive]_vars

\* one request at a time, well-formed or not, each storage access a step
NextAccess ==
    \/ \E t \in TableIds, w \in ValidationWindows, seats \in SeatCounts :
          CreateValidate(1, t, w, seats)
    \/ CreateTableInfo(1)
    \/ ApplyStart(1)
    \/ CancelStart(1)
    \/ Continue(1)
    \/ Tick

SpecAccess == Init /\ [][NextAccess]_vars

\* concurrent operations, seen by the connections they hold
NextPool ==
    \/ \E p \in Workers, op \in PoolOps : PoolCall(p, op)
    \/ \E p \in Workers : PoolRaise(p)
    \/ \E p \in Workers : PoolGet(p)
    \/ \E p \in Workers : PoolBody(p)
    \/ \E p \in Workers : PoolExcept(p)
    \/ \E p \in Workers : PoolFinally(p)
    \/ \E p \in Workers : PoolExit(p)

SpecPool == Init /\ [][NextPool]_vars

\* the lifecycle of the bookings of one table racing with the deletion of that table
NextRefund ==
    \/ \E p \in Workers : CreateStart(p, 1, <<120, 240>>, 2)
    \/ \E p \in Workers : ApplyStart(p)
    \/ \E p \in Workers : CancelStart(p)
    \/ \E p \in Workers : Continue(p)
    \/ \E p \in Workers : DeleteTableStart(p, 1)
    \/ \E p \in Workers : DeleteTableSelect(p)
    \/ \E p \in Workers : DeleteTableWrite(p)

SpecRefund == Init /\ [][NextRefund]_vars

-----------------------------------------------------------------------------
(* A store in which a final price meets a balance exactly *)

\* user 1 holds 4000.00 and a 20% promo, user 2 holds 4000.00 and no promo;
\* both tables cost 5000.00
InitScenario ==
    /\ now = 0
    /\ users = (1 :> [name |-> 1, promocode_id |-> 1, balance |-> 400000]) @@
               (2 :> [name |-> 1, promocode_id |-> NULL, balance |-> 400000])
    /\ tables = (1 :> [price |-> 500000, seats |-> 2]) @@
                (2 :> [price |-> 500000, seats |-> 4])
    /\ promocodes = (1 :> [discount |-> 20, expires_at |-> 600])
    /\ reservations = << >>
    /\ completed = << >>
    /\ seq = [reservations |-> 1, completed |-> 1]
    /\ pc = [p \in Workers |-> "idle"]
    /\ local = [p \in Workers |-> [op |-> "none"]]
    /\ resp = NoReply
    /\ refunds = << >>

\* one request at a time on that store
SpecScenario == InitScenario /\ [][NextClock]_vars

-----------------------------------------------------------------------------
(* A store whose promo, attached to user 2 in time, expires while the clock runs *)

InitExpiry ==
    /\ now = 0
    /\ users = (1 :> [name |-> 1, promocode_id |-> NULL, balance |-> 1000]) @@
               (2 :> [name |-> 1, promocode_id |-> 1, balance |-> 400])
    /\ tables = (1 :> [price |-> 600, seats |-> 2]) @@
                (2 :> [price |-> 301, seats |-> 4])
    /\ promocodes = (1 :> [discount |-> 50, expires_at |-> 100])
    /\ reservations = << >>
    /\ completed = << >>
    /\ seq = [reservations |-> 1, completed |-> 1]
    /\ pc = [p \in Workers |-> "idle"]
    /\ local = [p \in Workers |-> [op |-> "none"]]
    /\ resp = NoReply
    /\ refunds = << >>

\* one request at a time on that store while time passes
SpecExpiry == InitExpiry /\ [][NextClock]_vars

-----------------------------------------------------------------------------
(* The store of Init with the deposit history kept on each user row *)

InitLedger ==
    /\ now = 0
    /\ users = (1 :> [name |-> 1, promocode_id |-> NULL, balance |-> 1000, deposited |-> 0]) @@
               (2 :> [name |-> 1, promocode_id |-> 1, balance |-> 400, deposited |-> 0])
    /\ tables = (1 :> [price |-> 600, seats |-> 2]) @@
                (2 :> [price |-> 301, seats |-> 4])
    /\ promocodes = (1 :> [discount |-> 50, expires_at |-> 600])
    /\ reservations = << >>
    /\ completed = << >>
    /\ seq = [reservations |-> 1, completed |-> 1]
    /\ pc = [p \in Workers |-> "idle"]
    /\ local = [p \in Workers |-> [op |-> "none"]]
    /\ resp = NoReply
    /\ refunds = << >>

\* one worker books table 2, cancels, completes, attaches promos and deposits
\* money; between any two of its steps the other rewrites or deletes the promo
\* or updates the user
NextPrice ==
    \/ CreateStart(1, 2, <<120, 240>>, 2)
    \/ ApplyStart(1)
    \/ CancelStart(1)
    \/ Continue(1)
    \/ \E c \in PromoIds : ApplyPromoStart(1, 2, c)
    \/ ApplyPromoUser(1)
    \/ ApplyPromoWrite(1)
    \/ \E amount \in Deposits : FausetStart(1, 2, amount)
    \/ FausetWrite(1)
    \/ \E p \in Workers, c \in PromoIds, o \in PromoOffers : UpdatePromo(p, c, o[1], o[2])
    \/ \E p \in Workers, c \in PromoIds : DeletePromo(p, c)
    \/ \E p \in Workers, name \in Names : UpdateUser(p, 2, name)

SpecPrice == InitLedger /\ [][NextPrice]_vars

\* one worker deposits to user 1, while the bookings of user 1, their
\* cancellation and their completion run on either worker
NextDeposit ==
    \/ \E amount \in Deposits : FausetStart(1, 1, amount)
    \/ FausetWrite(1)
    \/ \E p \in Workers : CreateStart(p, 1, <<120, 240>>, 2)
    \/ \E p \in Workers : ApplyStart(p)
    \/ \E p \in Workers : CancelStart(p)
    \/ \E p \in Workers : Continue(p)

SpecDeposit == InitLedger /\ [][NextDeposit]_vars

\* the bookings of one window of table 1 and their cancellation and completion,
\* racing with the deletion of the users and of the table
NextIntegrity ==
    \/ \E p \in Workers : CreateStart(p, 1, <<120, 240>>, 2)
    \/ \E p \in Workers : ApplyStart(p)
    \/ \E p \in Workers : CancelStart(p)
    \/ \E p \in Workers : Continue(p)
    \/ \E p \in Workers, u \in UserIds : DeleteUser(p, u)
    \/ \E p \in Workers : DeleteTableStart(p, 1)
    \/ \E p \in Workers : DeleteTableSelect(p)
    \/ \E p \in Workers : DeleteTableWrite(p)

SpecIntegrity == Init /\ [][NextIntegrity]_vars

-----------------------------------------------------------------------------
(* Vocabulary of the properties *)

\* half-open intervals [s1,e1) and [s2,e2) overlap
Overlap(s1, e1, s2, e2) == s1 < e2 /\ s2 < e1

\* this step is worker p leaving position at with a response
Returns(p, at) == pc[p] = at /\ pc'[p] = "idle"

\* this step leaves every table of the store as it was
StoreSame ==
    /\ users' = users
    /\ tables' = tables
    /\ reservations' = reservations
    /\ completed' = completed

\* the archive rows written for reservation id
ArchiveRows(id) == { c \in DOMAIN completed : completed[c].rid = id }

\* reservation ids handed out so far
Created == DOMAIN refunds

-----------------------------------------------------------------------------
(* C1: no two active reservations of one table have overlapping [start,end)
   windows, under any interleaving of concurrent create_reservation requests. *)
C1_NoDoubleBooking ==
    \A r1 \in DOMAIN reservations : \A r2 \in DOMAIN reservations :
        (r1 # r2 /\ reservations[r1].table_id = reservations[r2].table_id)
        => ~Overlap(reservations[r1].start_time, reservations[r1].end_time,
                    reservations[r2].start_time, reservations[r2].end_time)

(* C2: no user's balance is ever negative, under any interleaving of create,
   complete and cancel requests, two concurrent creates by one user included. *)
C2_BalanceNonNegative == \A u \in DOMAIN users : users[u].balance >= 0

(* C3: create_reservation is atomic: its write transaction either adds exactly
   the one requested reservation (user, table, start, end, final price) and
   debits the final price from that user's balance in the same step, or it
   changes nothing; a reservation is never inserted without the debit nor the
   debit applied without the reservation. *)
C3_CreateAtomic ==
    [][\A p \in Workers : Returns(p, "c_write") =>
        LET l == local[p]
            id == resp'.id
        IN  \/ /\ resp'.status = 200
               /\ id \notin DOMAIN reservations
               /\ DOMAIN reservations' = DOMAIN reservations \cup {id}
               /\ \A r \in DOMAIN reservations : reservations'[r] = reservations[r]
               /\ reservations'[id] =
                     [user_id |-> l.user_id, table_id |-> l.table_id,
                      start_time |-> l.start_time, end_time |-> l.end_time,
                      price |-> (l.final_price + 50) \div 100]
               /\ users'[l.user_id].balance * 100 - (users[l.user_id].balance * 100 - l.final_price)
                     \in -50..50
               /\ \A v \in DOMAIN users \ {l.user_id} : users'[v] = users[v]
               /\ DOMAIN users' = DOMAIN users
               /\ completed' = completed /\ tables' = tables
            \/ /\ resp'.status # 200
               /\ StoreSame
    ]_vars

\* a create has just committed
C3_Witness == resp.op = "create" /\ resp.status = 200 /\ resp.id \in DOMAIN reservations

(* C4: every reservation gets exactly one terminal effect, however complete and
   cancel requests on its id interleave: while it is active nothing was archived
   or refunded for it, and once it is gone either exactly one archive row was
   written and no refund credited, or its price was credited exactly once and no
   archive row written. *)
C4_OneTerminalEffect ==
    \A id \in Created :
        IF id \in DOMAIN reservations
        THEN ArchiveRows(id) = {} /\ refunds[id] = 0
        ELSE Cardinality(ArchiveRows(id)) + refunds[id] = 1

\* a racing complete or cancel has just lost against a committed one and was rolled back
C4_Witness ==
    /\ resp.op \in {"apply", "cancel"}
    /\ resp.detail = "NoneType object is not subscriptable"
    /\ \E id \in Created : id \notin DOMAIN reservations

(* C5: apply_reservation is atomic: its write transaction either inserts the
   archive row and deletes the active row, or does neither; no reservation is in
   both the active store and the archive, and none leaves both. *)
C5_ApplyAtomic ==
    [][\A p \in Workers : Returns(p, "a_write") =>
        LET id == local[p].row.id
            new == DOMAIN completed' \ DOMAIN completed
        IN  /\ \/ /\ resp'.status = 200
                  /\ id \in DOMAIN reservations /\ id \notin DOMAIN reservations'
                  /\ Cardinality(new) = 1
                  /\ \A c \in new : completed'[c].rid = id
               \/ /\ resp'.status # 200
                  /\ reservations' = reservations
                  /\ completed' = completed
            /\ \A c \in DOMAIN completed' : completed'[c].rid \notin DOMAIN reservations'
    ]_vars

\* a completion has just failed at its second statement and was rolled back,
\* with the reservation still active
C5_Witness ==
    /\ resp.op = "apply" /\ resp.status = 400 /\ resp.detail = "storage fault"
    /\ \E id \in DOMAIN reservations : ArchiveRows(id) = {}

(* C6 as stated: apply_reservation on an active reservation removes the active
   row and adds exactly one archive row with its user, table, start, end and
   price, leaving every balance unchanged; an apply of an id that is not active
   answers 404 and changes nothing. *)
C6_ApplyMoves ==
    [][\A p \in Workers :
        /\ (Returns(p, "a_write") /\ resp'.id \in DOMAIN reservations
                                  /\ resp'.detail # "storage fault") =>
              LET id == resp'.id
                  r == reservations[id]
                  new == DOMAIN completed' \ DOMAIN completed
              IN  /\ resp'.status = 200
                  /\ DOMAIN reservations' = DOMAIN reservations \ {id}
                  /\ \A k \in DOMAIN reservations' : reservations'[k] = reservations[k]
                  /\ Cardinality(new) = 1
                  /\ \A c \in DOMAIN completed : completed'[c] = completed[c]
                  /\ \A c \in new :
                        /\ completed'[c].user_id = r.user_id
                        /\ completed'[c].table_id = r.table_id
                        /\ completed'[c].start_time = r.start_time
                        /\ completed'[c].end_time = r.end_time
                        /\ completed'[c].price = r.price
                  /\ users' = users
        /\ (pc[p] = "idle" /\ pc'[p] = "a_write") =>
              local'[p].row.id \in DOMAIN reservations
        /\ (pc' = pc /\ resp'.op = "apply") =>
              /\ resp'.id \notin DOMAIN reservations
              /\ resp'.status = 404
              /\ StoreSame
    ]_vars

(* C6 as amended: the same, for an active reservation whose start_time lies in
   a provisioned archive partition. *)
C6_ApplyMovesProvisioned ==
    [][\A p \in Workers :
        /\ (Returns(p, "a_write") /\ resp'.id \in DOMAIN reservations
                                  /\ resp'.detail # "storage fault"
                                  /\ reservations[resp'.id].start_time < PartitionEnd) =>
              LET id == resp'.id
                  r == reservations[id]
                  new == DOMAIN completed' \ DOMAIN completed
              IN  /\ resp'.status = 200
                  /\ DOMAIN reservations' = DOMAIN reservations \ {id}
                  /\ \A k \in DOMAIN reservations' : reservations'[k] = reservations[k]
                  /\ Cardinality(new) = 1
                  /\ \A c \in DOMAIN completed : completed'[c] = completed[c]
                  /\ \A c \in new :
                        /\ completed'[c].user_id = r.user_id
                        /\ completed'[c].table_id = r.table_id
                        /\ completed'[c].start_time = r.start_time
                        /\ completed'[c].end_time = r.end_time
                        /\ completed'[c].price = r.price
                  /\ users' = users
        /\ (pc[p] = "idle" /\ pc'[p] = "a_write") =>
              local'[p].row.id \in DOMAIN reservations
        /\ (pc' = pc /\ resp'.op = "apply") =>
              /\ resp'.id \notin DOMAIN reservations
              /\ resp'.status = 404
              /\ StoreSame
    ]_vars

\* a second apply of an archived reservation has just been answered 404
C6_Witness ==
    /\ resp.op = "apply" /\ resp.status = 404
    /\ ArchiveRows(resp.id) # {}

(* C7: cancel_reservation on an active reservation, whatever the clock reads
   relative to its window, credits the owner's balance with exactly the stored
   price, removes the active row and writes no archive row; a cancel of an id
   that is not active answers 404 and credits nothing. *)
C7_CancelRefunds ==
    [][\A p \in Workers :
        /\ (Returns(p, "x_write") /\ resp'.id \in DOMAIN reservations
                                  /\ resp'.detail # "storage fault") =>
              LET id == resp'.id
                  r == reservations[id]
              IN  /\ resp'.status = 200
                  /\ users'[r.user_id].balance = users[r.user_id].balance + r.price
                  /\ \A v \in DOMAIN users \ {r.user_id} : users'[v] = users[v]
                  /\ DOMAIN reservations' = DOMAIN reservations \ {id}
                  /\ \A k \in DOMAIN reservations' : reservations'[k] = reservations[k]
                  /\ completed' = completed
        /\ (pc[p] = "idle" /\ pc'[p] = "x_write") =>
              local'[p].id \in DOMAIN reservations
        /\ (pc' = pc /\ resp'.op = "cancel") =>
              /\ resp'.id \notin DOMAIN reservations
              /\ resp'.status = 404
              /\ StoreSame
    ]_vars

\* a cancel has just committed its refund after the end of every booking window
C7_Witness ==
    /\ resp.op = "cancel" /\ resp.status = 200
    /\ refunds[resp.id] = 1 /\ resp.id \notin DOMAIN reservations
    /\ \A w \in Windows : now > w[2]

\* the active reservations whose window overlaps a request's, on its table
Clashes(l) ==
    { r \in DOMAIN reservations :
        /\ reservations[r].table_id = l.table_id
        /\ Overlap(reservations[r].start_time, reservations[r].end_time,
                   l.start_time, l.end_time) }

\* this step is worker p running the query at position at
Runs(p, at) == pc[p] = at /\ pc'[p] # at

(* C8: a create_reservation whose availability query runs while an active
   reservation of the same table overlaps the requested window (s1 < e2 and
   s2 < e1) fails with the 400 Conflict response, inserts no reservation and
   leaves every balance unchanged. *)
C8_OverlapConflicts ==
    [][\A p \in Workers : (Runs(p, "c_check") /\ Clashes(local[p]) # {}) =>
        /\ resp' = [op |-> "create", status |-> 400, id |-> 0,
                    detail |-> "Table is already reserved for the specified time."]
        /\ pc'[p] = "idle"
        /\ StoreSame
    ]_vars

\* a create has just been turned down with Conflict
C8_Witness ==
    /\ resp.op = "create" /\ resp.status = 400
    /\ resp.detail = "Table is already reserved for the specified time."
    /\ reservations # << >>

(* C9: the availability check never rejects a request that overlaps no active
   reservation of its table (a touching window e1 = s2 and any reservation of
   another table included): the request goes on to its write, which commits
   unless the storage fails. *)
C9_DisjointAccepted ==
    [][\A p \in Workers :
        /\ (Runs(p, "c_check") /\ Clashes(local[p]) = {}) =>
              pc'[p] = "c_write" /\ resp' = NoReply
        /\ (Returns(p, "c_write") /\ resp'.detail # "storage fault") =>
              resp'.status = 200
    ]_vars

\* two touching bookings of one table, the later window booked first, next to a
\* booking state in which both were accepted
C9_Witness ==
    \E r1 \in DOMAIN reservations : \E r2 \in DOMAIN reservations :
        /\ r1 < r2
        /\ reservations[r1].table_id = reservations[r2].table_id
        /\ reservations[r1].start_time = reservations[r2].end_time
        /\ resp.op = "create" /\ resp.status = 200 /\ resp.id = r2

(* C10: a create_reservation whose final price, table_price * (100 - discount)
   / 100, is greater than the balance it reads fails with the 400
   InsufficientFunds response, leaves every balance unchanged and creates no
   reservation. *)
C10_InsufficientFunds ==
    [][\A p \in Workers :
        (Runs(p, "c_balance") /\ local[p].user_id \in DOMAIN users
            /\ local[p].price * (100 - Discount(local[p].user_id))
                  > users[local[p].user_id].balance * 100) =>
        /\ resp' = [op |-> "create", status |-> 400, id |-> 0,
                    detail |-> "Insufficient money for reservation."]
        /\ pc'[p] = "idle"
        /\ StoreSame
    ]_vars

\* a create has just been turned down for lack of funds
C10_Witness ==
    /\ resp.op = "create" /\ resp.status = 400
    /\ resp.detail = "Insufficient money for reservation."

(* C11: round trip: a successful create_reservation followed by the cancel of
   that reservation restores the user's balance exactly: the amount the create
   debits is the amount the cancel credits, which is the price stored on the
   reservation row. *)
C11_RoundTrip ==
    [][\A p \in Workers :
        /\ (Returns(p, "c_write") /\ resp'.status = 200) =>
              users[local[p].user_id].balance - users'[local[p].user_id].balance
                 = reservations'[resp'.id].price
        /\ (Returns(p, "x_write") /\ resp'.status = 200) =>
              users'[local[p].user_id].balance - users[local[p].user_id].balance
                 = reservations[resp'.id].price
    ]_vars

\* table_price * (1 - discount/100) rounded half-up to two decimals, in minor units
Charged(price, discount) == (price * (100 - discount) + 50) \div 100

(* C12: the charged price of a created reservation is table_price * (1 -
   discount/100) rounded half-up to two decimals, the discount being that of
   the user's promo and 0 without one; the price stored on the reservation row
   and the decrease of the balance are both this value. *)
C12_ChargedPrice ==
    [][\A p \in Workers :
        (Returns(p, "c_write") /\ resp'.status = 200) =>
            LET l == local[p]
                charged == Charged(l.price, Discount(l.user_id))
            IN  /\ reservations'[resp'.id].price = charged
                /\ users[l.user_id].balance - users'[l.user_id].balance = charged
    ]_vars

(* C13: create_reservation succeeds when the final price equals the balance
   exactly: table price 5000 and discount 20 give the final price 4000.00, a
   user with balance 4000.00 books and is left with 0.00, and the cancel of
   that reservation returns the balance to 4000.00. *)
C13_ExactFunds ==
    [][\A p \in Workers :
        LET l == local[p]
            exact == /\ l.price = 500000
                     /\ l.user_id \in DOMAIN users
                     /\ Discount(l.user_id) = 20
                     /\ users[l.user_id].balance = 400000
        IN  /\ (Runs(p, "c_balance") /\ exact) =>
                  pc'[p] = "c_check" /\ local'[p].final_price = 400000 * 100
            /\ (Returns(p, "c_write") /\ exact /\ resp'.detail # "storage fault") =>
                  /\ resp'.status = 200
                  /\ users'[l.user_id].balance = 0
                  /\ reservations'[resp'.id].price = 400000
            /\ (Returns(p, "x_write") /\ resp'.status = 200
                  /\ reservations[resp'.id].price = 400000
                  /\ users[l.user_id].balance = 0) =>
                  users'[l.user_id].balance = 400000
    ]_vars

\* the booking that took the whole balance has just been cancelled and the
\* balance is 4000.00 again
C13_Witness ==
    /\ resp.op = "cancel" /\ resp.status = 200
    /\ refunds[resp.id] = 1
    /\ users[1].balance = 400000
    /\ tables[1].price = 500000 /\ Discount(1) = 20

(* C14: minimum-duration boundary of create_reservation: a request with end -
   start exactly 1 hour is rejected with a 400 response and no state change,
   and a request with end - start of 1 hour and 1 minute passes the duration
   check (it goes on to the balance lookup when its start is not in the past
   and the table seats the party). *)
C14_DurationBoundary ==
    [][\A p \in Workers, t \in TableIds, w \in BoundaryWindows, seats \in SeatCounts :
        CreateStart(p, t, w, seats) =>
            /\ (w[2] - w[1] = Hour) =>
                  /\ resp'.op = "create" /\ resp'.status = 400
                  /\ pc'[p] = "idle"
                  /\ StoreSame
            /\ (w[2] - w[1] = Hour + 1) =>
                  /\ resp'.detail # "Minimum reservation time 1 hour."
                  /\ (w[1] >= now /\ seats <= tables[t].seats) =>
                        /\ pc'[p] = "c_balance"
                        /\ local'[p].start_time = w[1] /\ local'[p].end_time = w[2]
    ]_vars

\* a request for exactly one hour has just been turned down for its duration
\* while a booking of one hour and one minute is active
C14_Witness ==
    /\ resp.op = "create" /\ resp.status = 400
    /\ resp.detail = "Minimum reservation time 1 hour."
    /\ \E r \in DOMAIN reservations :
          reservations[r].end_time - reservations[r].start_time = Hour + 1

\* a request the validations of create_reservation must turn down
Invalid(t, w, seats) ==
    \/ w[1] >= w[2]
    \/ w[1] < now
    \/ w[2] - w[1] < Hour
    \/ (t \in DOMAIN tables /\ seats > tables[t].seats)

(* C15: create_reservation rejects with a 400 response, inserting no
   reservation and changing no balance, every request with start >= end, or
   start earlier than the current time, or end - start shorter than 1 hour, or
   more seats than the table has; consequently every active reservation has
   start < end and end - start >= 1 hour. *)
C15_Validation ==
    [][/\ \A p \in Workers, t \in TableIds, seats \in SeatCounts,
             w \in ValidationWindows :
             (CreateStart(p, t, w, seats) /\ Invalid(t, w, seats)) =>
                 /\ resp'.op = "create" /\ resp'.status = 400
                 /\ pc'[p] = "idle"
                 /\ StoreSame
       /\ \A r \in DOMAIN reservations' :
             /\ reservations'[r].start_time < reservations'[r].end_time
             /\ reservations'[r].end_time - reservations'[r].start_time >= Hour
    ]_vars

\* a request for more seats than the table has was just turned down, next to an
\* active reservation
C15_Witness ==
    /\ resp.op = "create" /\ resp.status = 400
    /\ resp.detail = "This table only seats"
    /\ reservations # << >>

\* the window passes the checks that come before the table lookup
WellFormed(w) == ~(w[1] >= w[2] \/ w[1] < now \/ w[1] + Hour >= w[2])

(* C16 as stated: a create_reservation naming a table id or a user id that does
   not exist, and an apply_reservation or cancel_reservation naming a
   reservation id that is not active, each fail with a 404 response and change
   neither a balance, nor the active reservations, nor the archive. *)
C16_NotFound ==
    [][\A p \in Workers :
        /\ \A t \in TableIds, w \in LookupWindows, seats \in SeatCounts :
              (CreateStart(p, t, w, seats) /\ t \notin DOMAIN tables) =>
                  /\ resp'.op = "create" /\ resp'.status = 404
                  /\ pc'[p] = "idle"
                  /\ StoreSame
        /\ (Runs(p, "c_balance") /\ local[p].user_id \notin DOMAIN users) =>
              /\ resp'.op = "create" /\ resp'.status = 404
              /\ pc'[p] = "idle"
              /\ StoreSame
        /\ (pc[p] = "idle" /\ pc'[p] = "a_write") => local'[p].row.id \in DOMAIN reservations
        /\ (pc[p] = "idle" /\ pc'[p] = "x_write") => local'[p].id \in DOMAIN reservations
        /\ (pc' = pc /\ resp'.op \in {"apply", "cancel"}) =>
              /\ resp'.id \notin DOMAIN reservations
              /\ resp'.status = 404
              /\ StoreSame
    ]_vars

(* C16 as amended: the same, for a create_reservation whose window passes the
   validations that precede the table lookup (start < end, start not in the
   past, longer than the minimum duration); the absent user is reported when
   the balance lookup runs, after the table was found and seats the party. *)
C16_NotFoundWellFormed ==
    [][\A p \in Workers :
        /\ \A t \in TableIds, w \in LookupWindows, seats \in SeatCounts :
              (CreateStart(p, t, w, seats) /\ WellFormed(w) /\ t \notin DOMAIN tables) =>
                  /\ resp'.op = "create" /\ resp'.status = 404
                  /\ pc'[p] = "idle"
                  /\ StoreSame
        /\ (Runs(p, "c_balance") /\ local[p].user_id \notin DOMAIN users) =>
              /\ resp'.op = "create" /\ resp'.status = 404
              /\ pc'[p] = "idle"
              /\ StoreSame
        /\ (pc[p] = "idle" /\ pc'[p] = "a_write") => local'[p].row.id \in DOMAIN reservations
        /\ (pc[p] = "idle" /\ pc'[p] = "x_write") => local'[p].id \in DOMAIN reservations
        /\ (pc' = pc /\ resp'.op \in {"apply", "cancel"}) =>
              /\ resp'.id \notin DOMAIN reservations
              /\ resp'.status = 404
              /\ StoreSame
    ]_vars

\* a create naming a deleted user has just been answered 404
C16_Witness ==
    /\ resp.op = "create" /\ resp.status = 404
    /\ resp.detail = "Invalid user_id"
    /\ DOMAIN users # UserIds

(* C17: when the table is deleted by a concurrent delete_table after
   create_reservation read its price and seats and before the create's insert
   commits, the create fails with a 404 response and leaves no active
   reservation and no balance debit behind. *)
C17_TableVanishes ==
    [][\A p \in Workers :
        (Returns(p, "c_write") /\ local[p].table_id \notin DOMAIN tables) =>
            /\ resp'.op = "create" /\ resp'.status = 404
            /\ StoreSame
    ]_vars

(* C18: when a step of the write transaction of create_reservation,
   apply_reservation or cancel_reservation fails, every write of the
   transaction is rolled back before the error is returned: the balances, the
   active reservations and the archive are as they were. *)
C18_FailureRollsBack ==
    [][\A p \in Workers :
        ((Returns(p, "c_write") \/ Returns(p, "a_write") \/ Returns(p, "x_write"))
            /\ resp'.status # 200) =>
        /\ StoreSame
        /\ resp'.status >= 400
    ]_vars

\* a cancel has just failed inside its transaction: the reservation is still
\* active and nothing was credited for it
C18_Witness ==
    /\ resp.op = "cancel" /\ resp.status = 400 /\ resp.detail = "storage fault"
    /\ resp.id \in DOMAIN reservations
    /\ refunds[resp.id] = 0

\* the details of the responses that report a fault of the caller
ClientFaults ==
    { "The start time is greater than the end time.",
      "The reservation start date must not start earlier than the current time.",
      "Minimum reservation time 1 hour.",
      "This table only seats",
      "Invalid tables_id", "Invalid user_id", "Reservation not found",
      "Table is already reserved for the specified time.",
      "Insufficient money for reservation." }

(* C19: validation, not-found, conflict and insufficient-funds outcomes are
   returned with a 4xx status, and an unexpected failure of the storage
   transaction inside create_reservation, apply_reservation or
   cancel_reservation is returned with a 5xx status. *)
C19_ErrorClasses ==
    /\ (resp.detail \in ClientFaults) => resp.status \in 400..499
    /\ (resp.op \in {"create", "apply", "cancel"} /\ resp.detail = "storage fault") =>
          resp.status \in 500..599

(* C20: the archive row written by apply_reservation holds the owning user's
   identity fields and promo reference as they are at the moment the completion
   commits, also when an update_user or apply_promo on that user commits
   between the completion's lookup and its archive insert. *)
C20_ArchiveIdentity ==
    [][\A p \in Workers :
        (Returns(p, "a_write") /\ resp'.status = 200) =>
            \A c \in DOMAIN completed' \ DOMAIN completed :
                LET u == completed'[c].user_id IN
                u \in DOMAIN users' =>
                    /\ completed'[c].name = users'[u].name
                    /\ completed'[c].promocode_id = users'[u].promocode_id
    ]_vars

(* C21: a promo's expiry is evaluated against the current time when the promo
   is used to price a booking: a create_reservation priced at a time >= the
   expires_at of the promo attached to its user does not receive that promo's
   discount, its final price is the table price. *)
C21_ExpiryAtUse ==
    [][\A p \in Workers :
        LET l == local[p] IN
        (Runs(p, "c_balance") /\ pc'[p] = "c_check"
            /\ users[l.user_id].promocode_id \in DOMAIN promocodes
            /\ now >= promocodes[users[l.user_id].promocode_id].expires_at) =>
        local'[p].final_price = l.price * 100
    ]_vars

(* C22: the charged price of an active reservation is fixed at creation: no
   operation (the create of another reservation, apply_promo, update_promo,
   delete_promo, fauset_user, update_user) changes the price of an existing
   active reservation, the cancel credits that price and the completion copies
   it to the archive. *)
C22_PriceFixed ==
    [][/\ \A r \in DOMAIN reservations \cap DOMAIN reservations' :
             reservations'[r].price = reservations[r].price
       /\ \A p \in Workers :
             /\ (Returns(p, "x_write") /\ resp'.status = 200) =>
                   LET r == reservations[resp'.id] IN
                   users'[r.user_id].balance = users[r.user_id].balance + r.price
             /\ (Returns(p, "a_write") /\ resp'.status = 200) =>
                   \A c \in DOMAIN completed' \ DOMAIN completed :
                       completed'[c].price = reservations[resp'.id].price
    ]_vars

\* a reservation priced with the promo is still active at that price after the
\* promo was rewritten
C22_Witness ==
    /\ resp.op = "update_promo" /\ resp.status = 200
    /\ promocodes[1].discount = 99
    /\ \E r \in DOMAIN reservations :
          reservations[r].user_id = 2 /\ reservations[r].price = 151

(* C23: the price charged for a reservation is never negative: for every table
   create_table accepts and every promo create_promo or update_promo accepts,
   every active reservation has price >= 0, so that a create never increases
   the balance of the booking user. *)
C23_PriceNonNegative ==
    \A r \in DOMAIN reservations : reservations[r].price >= 0

(* C24: the archive of completed reservations is append-only: no operation
   changes a field of an existing archive row or removes it, and the only
   change to the archive is the one row a successful apply_reservation adds. *)
C24_ArchiveAppendOnly ==
    [][/\ \A c \in DOMAIN completed :
             c \in DOMAIN completed' /\ completed'[c] = completed[c]
       /\ (completed' # completed) =>
             /\ Cardinality(DOMAIN completed' \ DOMAIN completed) = 1
             /\ \E p \in Workers : Returns(p, "a_write")
             /\ resp'.op = "apply" /\ resp'.status = 200
    ]_vars

\* an archive row outlives its user, whose deletion was just answered
C24_Witness ==
    /\ resp.op = "delete_user" /\ resp.status = 200
    /\ \E c \in DOMAIN completed : completed[c].user_id = resp.id

(* C25: apply_reservation of a reservation whose start_time lies in no
   provisioned archive partition is treated as a fatal configuration error and
   not as a failure of the request (it is not answered with a client-fault
   status); no archive row is written and the reservation stays active with
   all balances unchanged. *)
C25_PartitionFatal ==
    [][\A p \in Workers :
        (Returns(p, "a_write") /\ local[p].row.start_time >= PartitionEnd
                               /\ resp'.detail # "storage fault") =>
            /\ StoreSame
            /\ local[p].row.id \in DOMAIN reservations'
            /\ resp'.status \notin 400..499
    ]_vars

\* the details of the responses to a window that breaks a rule
WindowFaults ==
    { "The start time is greater than the end time.",
      "The reservation start date must not start earlier than the current time.",
      "Minimum reservation time 1 hour." }

\* the details of the responses to a request that breaks a validation rule
ValidationFaults == WindowFaults \cup { "This table only seats" }

(* C26 as stated: in create_reservation every validation failure (start >= end,
   start in the past, duration below the minimum, too many seats) is reported
   before any storage access: the request is answered by its first step, with
   no table lookup, user lookup or availability query performed. *)
C26_ValidationFirst ==
    [][/\ \A p \in Workers, t \in TableIds, seats \in SeatCounts, w \in ValidationWindows :
             (CreateValidate(p, t, w, seats) /\ Invalid(t, w, seats)) =>
                 /\ resp'.op = "create" /\ resp'.detail \in ValidationFaults
                 /\ pc' = pc
                 /\ StoreSame
       /\ (resp'.op = "create" /\ resp'.detail \in ValidationFaults) => pc' = pc
    ]_vars

(* C26 as amended: every failure of a rule on the window (start >= end, start
   in the past, duration below the minimum) is reported by the first step of
   the request, before any storage access; too many seats is reported by the
   step that looks the table up, before the user lookup and the availability
   query. *)
C26_WindowValidationFirst ==
    [][/\ \A p \in Workers, t \in TableIds, seats \in SeatCounts, w \in ValidationWindows :
             (CreateValidate(p, t, w, seats) /\ ~WellFormed(w)) =>
                 /\ resp'.op = "create" /\ resp'.detail \in WindowFaults
                 /\ pc' = pc
                 /\ StoreSame
       /\ (resp'.op = "create" /\ resp'.detail \in WindowFaults) => pc' = pc
       /\ \A p \in Workers :
             (Runs(p, "c_table") /\ local[p].table_id \in DOMAIN tables
                 /\ local[p].seats > tables[local[p].table_id].seats) =>
                 /\ resp'.op = "create" /\ resp'.detail = "This table only seats"
                 /\ pc'[p] = "idle"
                 /\ StoreSame
       /\ (resp'.op = "create" /\ resp'.detail = "This table only seats") =>
             \E p \in Workers : Returns(p, "c_table")
    ]_vars

\* a request whose start lies in the past has just been turned down, next to an
\* active reservation
C26_Witness ==
    /\ resp.op = "create" /\ resp.status = 400
    /\ resp.detail = "The reservation start date must not start earlier than the current time."
    /\ reservations # << >>

(* C27: every connection an operation takes from the pool is returned on every
   exit path: when a create_reservation, apply_reservation, cancel_reservation,
   delete_table or execute_query call returns or raises (success, validation
   failure, not-found, or a fault inside the transaction), it holds no
   connection; it never holds more than one. *)
C27_ConnectionsReleased ==
    [][\A p \in Workers :
        /\ (pc[p] # "idle" /\ pc'[p] = "idle") => local[p].conns = 0
        /\ (pc'[p] # "idle") => local'[p].conns \in {0, 1}
    ]_vars

\* a write transaction has just failed and answered, with the other operation
\* holding its connection
C27_Witness ==
    /\ resp.op \in PoolOps /\ resp.status = 400 /\ resp.detail = "storage fault"
    /\ \E p \in Workers : pc[p] = "k_held" /\ local[p].conns = 1

(* C28: delete_table refunds every active reservation of the deleted table
   exactly once, however it interleaves with cancel, complete and create on
   that table: a reservation that is gone and was not archived had its price
   credited exactly once, and one that was archived was never credited. *)
C28_CascadeRefundsOnce ==
    \A id \in Created :
        id \notin DOMAIN reservations =>
            refunds[id] = (IF ArchiveRows(id) = {} THEN 1 ELSE 0)

(* C29: a deposit that commits increases the balance by exactly its amount,
   whatever create debit or cancel refund committed between the read of the
   balance and the write: the balance after the write is the balance before it
   plus the amount. *)
C29_DepositExact ==
    [][\A p \in Workers :
        (pc[p] = "f_write" /\ pc'[p] = "idle" /\ resp'.status = 200) =>
            users'[local[p].user_id].balance =
                users[local[p].user_id].balance + local[p].amount
    ]_vars

\* the sum of the prices of the rows of a table of the store that belong to user u
RECURSIVE SumPrices(_, _)
SumPrices(rows, ids) ==
    IF ids = {}
    THEN 0
    ELSE LET i == CHOOSE x \in ids : TRUE
         IN  rows[i].price + SumPrices(rows, ids \ {i})

Held(rows, u) == SumPrices(rows, { i \in DOMAIN rows : rows[i].user_id = u })

\* the balances the users start with
InitialBalance(u) == IF u = 1 THEN 1000 ELSE 400

(* C30: money is conserved: after any sequence of deposits, bookings,
   completions and cancellations, successful or failed, every user's balance
   plus the prices of that user's active reservations plus the prices of that
   user's archived reservations equals the initial balance plus the amounts
   deposited. *)
C30_Conservation ==
    \A u \in DOMAIN users :
        users[u].balance + Held(reservations, u) + Held(completed, u)
            = InitialBalance(u) + users[u].deposited

(* C31: referential integrity of the active reservations: after every step of
   create_reservation, apply_reservation, cancel_reservation, delete_user and
   delete_table, every active reservation names a user that exists and a
   table that exists; a step that deletes a user or a table removes every
   active reservation of it, so no row of it overlaps a window any more. *)
C31_ReferentialIntegrity ==
    [][/\ \A r \in DOMAIN reservations' :
            /\ reservations'[r].user_id \in DOMAIN users'
            /\ reservations'[r].table_id \in DOMAIN tables'
       /\ \A r \in DOMAIN reservations :
            (reservations[r].user_id \notin DOMAIN users'
               \/ reservations[r].table_id \notin DOMAIN tables')
            => r \notin OverlappingRows(reservations', reservations[r].table_id,
                                        reservations[r].start_time, reservations[r].end_time)
    ]_vars

\* the window of a reservation that went with its deleted user has just been
\* booked again on the table, which still exists
C31_Witness ==
    /\ resp.op = "create" /\ resp.status = 200 /\ resp.id = 2
    /\ 1 \notin DOMAIN reservations /\ refunds[1] = 0 /\ ArchiveRows(1) = {}
    /\ DOMAIN users # UserIds
    /\ 2 \in DOMAIN reservations /\ reservations[2].table_id \in DOMAIN tables

\* the user of the reservation that the operation of worker p is about
OwnUser(p) == IF local[p].op = "apply" THEN local[p].row.user_id ELSE local[p].user_id

\* the step changes at most one reservation: it adds one row of user u or
\* removes one row, and leaves every other row as it was
OneReservation(u) ==
    LET old == DOMAIN reservations
        new == DOMAIN reservations'
    IN  /\ \A r \in old \cap new : reservations'[r] = reservations[r]
        /\ \/ new = old
           \/ old \subseteq new /\ Cardinality(new \ old) = 1
                /\ \A r \in new \ old : reservations'[r].user_id = u
           \/ new \subseteq old /\ Cardinality(old \ new) = 1

(* C32: frame of the lifecycle operations: a step of create_reservation,
   apply_reservation or cancel_reservation changes at most the balance of the
   reservation's own user and the one reservation it creates or removes; every
   other user row, every other field of the own user, every other active
   reservation, every table and every promo stay as they were, a step of
   apply_reservation changes no balance at all, and the steps before the
   write transaction change nothing. *)
C32_LifecycleFrame ==
    [][\A p \in Workers : pc'[p] # pc[p] =>
        IF pc[p] \in {"c_write", "a_write", "x_write"}
        THEN /\ tables' = tables
             /\ promocodes' = promocodes
             /\ DOMAIN users' = DOMAIN users
             /\ \A u \in DOMAIN users :
                   IF u = OwnUser(p) /\ local[p].op # "apply"
                   THEN users'[u] = [users[u] EXCEPT !.balance = users'[u].balance]
                   ELSE users'[u] = users[u]
             /\ OneReservation(OwnUser(p))
             /\ (local[p].op = "cancel" /\ reservations' # reservations)
                   => local[p].id \notin DOMAIN reservations'
             /\ (local[p].op = "apply" /\ reservations' # reservations)
                   => local[p].row.id \notin DOMAIN reservations'
        ELSE StoreSame /\ promocodes' = promocodes
    ]_vars

\* a cancellation has just committed while another reservation is active
C32_Witness ==
    /\ resp.op = "cancel" /\ resp.status = 200
    /\ refunds[resp.id] = 1
    /\ \E r \in DOMAIN reservations : r # resp.id

=============================================================================
